---- MODULE Spec2Model ----
(***************************************************************************)
(* Model of app.py, the Streamlit dashboard script of smb-risk-demo.       *)
(*                                                                         *)
(* The script is executed top to bottom on every run; Streamlit starts a   *)
(* new run of the whole script whenever the operator changes a widget or   *)
(* asks for a rerun.  The state is the CSV file next to the script, the    *)
(* position of the running script, the script's globals, the widget        *)
(* values kept by the session, and the elements the run has rendered.      *)
(*                                                                         *)
(* Units: Item_price and synthetic_amount are held in cents, the price     *)
(* slider in whole dollars, sentiment scores and the sentiment slider in   *)
(* hundredths.                                                             *)
(*                                                                         *)
(* Of the file's text columns only "Unique id" is carried; the others      *)
(* ("Order_id", "Customer Remarks", "synthetic_merchant", "CSAT Score")    *)
(* pass through the script the same way.  Date text is day-first           *)
(* DD-MM-YYYY text, text that is no date, or empty.  The except branch of  *)
(* lines 102-106 is not reached by such text under errors="coerce" and is  *)
(* left out, as are the styling, logo and debug lines 14-51.               *)
(***************************************************************************)
EXTENDS Integers, Sequences, FiniteSets, TLC

VARIABLES
    csv,            \* the file sample_flagged.csv: [exists, readable, rows]
    pc,             \* position of the script run
    run,            \* number of script runs started in this session
    reads,          \* number of pd.read_csv calls made
    loads,          \* number of DataFrames returned by load_data
    err,            \* the exception that ended the current run, if any
    defined,        \* script globals bound in the current run
    df,             \* global df
    price_min,      \* global price_min / state of the price slider
    sentiment_max,  \* global sentiment_max / state of the sentiment slider
    channel_opts,   \* global channel_opts / state of the multiselect
    session,        \* widgets whose value the session already holds
    filtered,       \* global filtered
    summary,        \* the "N flagged rows (out of M total)" subheader
    table,          \* the st.dataframe element
    metrics,        \* the three st.metric elements
    chart_data,     \* global chart_data
    csv_bytes       \* global csv_bytes handed to the download button

vars == <<csv, pc, run, reads, loads, err, defined, df, price_min,
          sentiment_max, channel_opts, session, filtered, summary, table,
          metrics, chart_data, csv_bytes>>

-----------------------------------------------------------------------------
(* Bounds of the model *)

\* longest CSV file (data rows) considered
MaxRows == 2
\* script runs per session (the first run plus MaxRuns - 1 reruns)
MaxRuns == 3

-----------------------------------------------------------------------------
(* Cell values *)

\* a numeric cell; pandas holds an empty numeric cell as NaN
Num(n) == [na |-> FALSE, v |-> n]
NaN == [na |-> TRUE, v |-> 0]
\* an empty text cell of channel_name is NaN as well
NoChannel == "<NaN>"
\* a parsed date, and pandas' missing date NaT
Date(y, m, d) == [nat |-> FALSE, y |-> y, m |-> m, d |-> d]
NaT == [nat |-> TRUE, y |-> 0, m |-> 0, d |-> 0]

\* text is a sequence of one-character strings
DigitChars == <<"0", "1", "2", "3", "4", "5", "6", "7", "8", "9">>
IsDigit(c) == \E i \in 1..10 : DigitChars[i] = c
DigitVal(c) == (CHOOSE i \in 1..10 : DigitChars[i] = c) - 1
Digit(n) == DigitChars[n + 1]

-----------------------------------------------------------------------------
(* The columns of the file *)

Columns == <<"Unique id", "order_date_time", "sentiment_score", "Item_price",
             "synthetic_amount", "channel_name", "synthetic_date">>
ColumnSet == {Columns[i] : i \in 1..Len(Columns)}

expected_date_cols == <<"order_date_time", "synthetic_date", "Survey_response_Date">>
existing_date_cols ==
    SelectSeq(expected_date_cols, LAMBDA col : col \in ColumnSet)
DateColSet == {existing_date_cols[i] : i \in 1..Len(existing_date_cols)}

cols_to_show == <<"Unique id", "order_date_time", "sentiment_score",
                  "Item_price", "synthetic_amount", "channel_name">>
ShownSet == {cols_to_show[i] : i \in 1..Len(cols_to_show)}

data_path == "sample_flagged.csv"

-----------------------------------------------------------------------------
(* pd.to_datetime(col, dayfirst=True, errors="coerce"), cell by cell *)

DaysIn(y, m) ==
    IF m \in {4, 6, 9, 11} THEN 30
    ELSE IF m = 2
         THEN (IF y % 4 = 0 /\ (y % 100 # 0 \/ y % 400 = 0) THEN 29 ELSE 28)
         ELSE 31

TwoDigits(t, i) == 10 * DigitVal(t[i]) + DigitVal(t[i + 1])
FourDigits(t, i) == 100 * TwoDigits(t, i) + TwoDigits(t, i + 2)

\* text of the shape DD-MM-YYYY
IsDayFirstText(t) ==
    /\ Len(t) = 10
    /\ t[3] = "-" /\ t[6] = "-"
    /\ \A i \in {1, 2, 4, 5, 7, 8, 9, 10} : IsDigit(t[i])

\* dayfirst=True reads the first field as the day; errors="coerce" turns
\* text that is no date, and an empty cell, into NaT
ToDatetimeCell(t) ==
    IF /\ IsDayFirstText(t)
       /\ TwoDigits(t, 4) \in 1..12
       /\ TwoDigits(t, 1) \in 1..DaysIn(FourDigits(t, 7), TwoDigits(t, 4))
    THEN Date(FourDigits(t, 7), TwoDigits(t, 4), TwoDigits(t, 1))
    ELSE NaT

-----------------------------------------------------------------------------
(* load_data *)

\* pd.read_csv: one frame row per data row, labelled 0, 1, ... (RangeIndex)
ReadCsv(rows) ==
    [i \in 1..Len(rows) |-> [index |-> i - 1, cells |-> rows[i]]]

\* a conversion in which one cell that is no date blanks its whole column
ConvertDatesWholeColumn(frame) ==
    LET broken(c) == \E j \in 1..Len(frame) :
                        /\ Len(frame[j].cells[c]) > 0
                        /\ ToDatetimeCell(frame[j].cells[c]) = NaT
    IN  [i \in 1..Len(frame) |->
            [index |-> frame[i].index,
             cells |-> [c \in ColumnSet |->
                            IF c \in DateColSet
                            THEN (IF broken(c) THEN NaT
                                  ELSE ToDatetimeCell(frame[i].cells[c]))
                            ELSE frame[i].cells[c]]]]

\* df[existing_date_cols] = df[existing_date_cols].apply(to_datetime)
ConvertDates(frame) ==
    [i \in 1..Len(frame) |->
        [index |-> frame[i].index,
         cells |-> [c \in ColumnSet |->
                        IF c \in DateColSet
                        THEN ToDatetimeCell(frame[i].cells[c])
                        ELSE frame[i].cells[c]]]]

LoadData(rows) == ConvertDates(ReadCsv(rows))

-----------------------------------------------------------------------------
(* Comparisons and reductions of pandas; NaN compares False and is skipped *)

Gt(cell, n) == ~cell.na /\ cell.v > n
Lt(cell, n) == ~cell.na /\ cell.v < n

Column(frame, col) == [i \in 1..Len(frame) |-> frame[i].cells[col]]

RECURSIVE SumSkipNa(_)
SumSkipNa(cellseq) ==
    IF cellseq = <<>> THEN 0
    ELSE (IF Head(cellseq).na THEN 0 ELSE Head(cellseq).v)
         + SumSkipNa(Tail(cellseq))

CountNotNa(cellseq) == Len(SelectSeq(cellseq, LAMBDA cell : ~cell.na))

MaxOf(S) == CHOOSE x \in S : \A y \in S : y <= x

\* Series.max(): NaN when no value is present
SeriesMax(cellseq) ==
    LET present == {cellseq[i].v : i \in {j \in 1..Len(cellseq) : ~cellseq[j].na}}
    IN  IF present = {} THEN NaN ELSE Num(MaxOf(present))

\* a mean is NaN or the exact quotient num / den
NanMean == [nan |-> TRUE, num |-> 0, den |-> 1]

\* a mean that guards the empty case by returning zero
SeriesMeanZeroWhenEmpty(cellseq) ==
    IF CountNotNa(cellseq) = 0 THEN [nan |-> FALSE, num |-> 0, den |-> 1]
    ELSE [nan |-> FALSE, num |-> SumSkipNa(cellseq), den |-> CountNotNa(cellseq)]

\* Series.mean(): skipna=True, NaN when no value is present
SeriesMean(cellseq) ==
    IF CountNotNa(cellseq) = 0 THEN NanMean
    ELSE [nan |-> FALSE, num |-> SumSkipNa(cellseq), den |-> CountNotNa(cellseq)]

\* Series.dropna().unique()
DropnaUnique(frame, col) ==
    {frame[i].cells[col] : i \in 1..Len(frame)} \ {NoChannel}

-----------------------------------------------------------------------------
(* The filter, lines 156-160 *)

\* the filter with inclusive bounds (>= and <=)
FilterInclusive(frame, pmin, smax, opts) ==
    SelectSeq(frame, LAMBDA r :
        /\ ~r.cells["Item_price"].na /\ r.cells["Item_price"].v >= pmin * 100
        /\ ~r.cells["sentiment_score"].na /\ r.cells["sentiment_score"].v <= smax
        /\ r.cells["channel_name"] \in opts)

\* the filter followed by a slice that starts one row late (.iloc[1:])
FilterSkipFirst(frame, pmin, smax, opts) ==
    LET kept == SelectSeq(frame, LAMBDA r :
                    /\ Gt(r.cells["Item_price"], pmin * 100)
                    /\ Lt(r.cells["sentiment_score"], smax)
                    /\ r.cells["channel_name"] \in opts)
    IN  IF kept = <<>> THEN kept ELSE Tail(kept)

\* the filter reading an empty selection as "all channels"
FilterAllWhenEmpty(frame, pmin, smax, opts) ==
    SelectSeq(frame, LAMBDA r :
        /\ Gt(r.cells["Item_price"], pmin * 100)
        /\ Lt(r.cells["sentiment_score"], smax)
        /\ (opts = {} \/ r.cells["channel_name"] \in opts))

\* the filter returning the surviving rows last row first ([::-1])
FilterReversed(frame, pmin, smax, opts) ==
    LET kept == SelectSeq(frame, LAMBDA r :
                    /\ Gt(r.cells["Item_price"], pmin * 100)
                    /\ Lt(r.cells["sentiment_score"], smax)
                    /\ r.cells["channel_name"] \in opts)
    IN  [k \in 1..Len(kept) |-> kept[Len(kept) + 1 - k]]

Filter(frame, pmin, smax, opts) ==
    SelectSeq(frame, LAMBDA r :
        /\ Gt(r.cells["Item_price"], pmin * 100)
        /\ Lt(r.cells["sentiment_score"], smax)
        /\ r.cells["channel_name"] \in opts)

\* frame[cols].reset_index(drop=True)
ProjectReset(frame, colset) ==
    [i \in 1..Len(frame) |->
        [index |-> i - 1, cells |-> [c \in colset |-> frame[i].cells[c]]]]

-----------------------------------------------------------------------------
(* Formatting *)

\* round num / den to the nearest integer, ties to even
RoundHalfEven(num, den) ==
    LET q == num \div den
        r == num % den
    IN  IF 2 * r < den THEN q
        ELSE IF 2 * r > den THEN q + 1
        ELSE IF q % 2 = 0 THEN q ELSE q + 1

\* f"${mean:,.0f}" of a mean held in cents: whole dollars, or "nan"
FormatDollars(m) ==
    IF m.nan THEN [nan |-> TRUE, n |-> 0]
    ELSE [nan |-> FALSE, n |-> RoundHalfEven(m.num, m.den * 100)]

\* f"{mean:.2f}" of a mean held in hundredths: hundredths, or "nan"
FormatHundredths(m) ==
    IF m.nan THEN [nan |-> TRUE, n |-> 0]
    ELSE [nan |-> FALSE, n |-> RoundHalfEven(m.num, m.den)]

\* to_csv writes a date as YYYY-MM-DD and a missing value as the empty field
DateText(d) ==
    IF d.nat THEN <<>>
    ELSE << Digit(d.y \div 1000), Digit((d.y \div 100) % 10),
            Digit((d.y \div 10) % 10), Digit(d.y % 10), "-",
            Digit(d.m \div 10), Digit(d.m % 10), "-",
            Digit(d.d \div 10), Digit(d.d % 10) >>

ToCsvCell(col, cell) ==
    IF col \in DateColSet THEN DateText(cell) ELSE cell

\* the fields of one line of to_csv output
ToCsvLine(r, index) ==
    LET fields == [j \in 1..Len(Columns) |-> ToCsvCell(Columns[j], r.cells[Columns[j]])]
    IN  IF index THEN <<r.index>> \o fields ELSE fields

\* DataFrame.to_csv(index=...)
ToCsv(frame, index) ==
    [header |-> IF index THEN <<"">> \o Columns ELSE Columns,
     lines  |-> [k \in 1..Len(frame) |-> ToCsvLine(frame[k], index)]]

\* to_csv with its default index=True
ExportCsvWithIndex(frame) == ToCsv(frame, TRUE)

\* line 206: filtered.to_csv(index=False)
ExportCsv(frame) == ToCsv(frame, FALSE)

-----------------------------------------------------------------------------
(* The files considered: every sequence of at most MaxRows rows of RowPool *)

Text1008 == <<"1", "0", "-", "0", "8", "-", "2", "0", "2", "3">>
Text2511 == <<"2", "5", "-", "1", "1", "-", "2", "0", "2", "3">>
TextNotADate == <<"n", "o", "t", "-", "a", "-", "d", "a", "t", "e">>
TextFeb30 == <<"3", "0", "-", "0", "2", "-", "2", "0", "2", "3">>
TextEmpty == <<>>

Row(uid, odt, sent, price, amount, chan, sdt) ==
    [c \in ColumnSet |->
        CASE c = "Unique id" -> uid
          [] c = "order_date_time" -> odt
          [] c = "sentiment_score" -> sent
          [] c = "Item_price" -> price
          [] c = "synthetic_amount" -> amount
          [] c = "channel_name" -> chan
          [] c = "synthetic_date" -> sdt]

RowPool ==
    { Row("a", Text1008, NaN, Num(10000), Num(1000), "web", TextFeb30),
      Row("b", Text2511, Num(-50), Num(30000), Num(4000), "store", Text1008),
      Row("c", TextNotADate, Num(-60), Num(25050), NaN, "web", Text1008),
      Row("d", Text1008, Num(-40), Num(20000), Num(1000), "store", TextNotADate),
      Row("f", TextEmpty, Num(-60), NaN, Num(1000), "web", Text2511),
      Row("h", Text2511, Num(-60), Num(30000), Num(4000), NoChannel, TextEmpty) }

Files ==
    UNION {[1..n -> RowPool] : n \in 0..MaxRows}

-----------------------------------------------------------------------------
(* Initial state: the session opens and the first run is about to load *)

NoError == [type |-> "none", path |-> ""]
NoFrame == <<>>
NoSummary == [flagged |-> 0, total |-> 0]
NoMetrics == [price |-> NanMean, amount |-> NanMean, sentiment |-> NanMean,
              price_text |-> [nan |-> TRUE, n |-> 0],
              amount_text |-> [nan |-> TRUE, n |-> 0],
              sentiment_text |-> [nan |-> TRUE, n |-> 0]]
NoCsv == [header |-> <<>>, lines |-> <<>>]

Init ==
    /\ csv \in {[exists |-> FALSE, readable |-> FALSE, rows |-> <<>>],
                [exists |-> TRUE, readable |-> FALSE, rows |-> <<>>]}
               \cup {[exists |-> TRUE, readable |-> TRUE, rows |-> f] : f \in Files}
    /\ pc = "load"
    /\ run = 1
    /\ reads = 0
    /\ loads = 0
    /\ err = NoError
    /\ defined = {}
    /\ df = NoFrame
    /\ price_min = 0
    /\ sentiment_max = 0
    /\ channel_opts = {}
    /\ session = {}
    /\ filtered = NoFrame
    /\ summary = NoSummary
    /\ table = NoFrame
    /\ metrics = NoMetrics
    /\ chart_data = NoFrame
    /\ csv_bytes = NoCsv

-----------------------------------------------------------------------------
(* Widget configuration, lines 133-153 *)

PriceDefault == 200
PriceStep == 50
SentimentLow == -100
SentimentHigh == 0
SentimentDefault == -40
SentimentStep == 5

\* int(df["Item_price"].max()), in dollars; int() of NaN raises ValueError
PriceMaxIsNan(frame) == SeriesMax(Column(frame, "Item_price")).na
PriceMaxValue(frame) == SeriesMax(Column(frame, "Item_price")).v \div 100

\* the upper end of the rendered price slider: max_value, or the default
\* value when the slider is widened to hold it
SliderMax(frame) ==
    IF PriceDefault > PriceMaxValue(frame) THEN PriceDefault
    ELSE PriceMaxValue(frame)

\* the positions a slider offers: min_value + k * step, up to max_value
SliderPositions(lo, hi, step) ==
    {p \in lo..hi : (p - lo) % step = 0}

-----------------------------------------------------------------------------
(* One run of the script *)

\* load_data without the is_file() check: the read is attempted and fails
LoadNotFoundUnchecked ==
    /\ pc = "load"
    /\ ~csv.exists
    /\ reads' = reads + 1
    /\ err' = [type |-> "FileNotFoundError", path |-> data_path]
    /\ pc' = "aborted"
    /\ UNCHANGED <<csv, run, loads, defined, df, price_min, sentiment_max,
                   channel_opts, session, filtered, summary, table, metrics,
                   chart_data, csv_bytes>>

\* lines 64-69: the file is not there; raised before any read
LoadNotFound ==
    /\ pc = "load"
    /\ ~csv.exists
    /\ err' = [type |-> "FileNotFoundError", path |-> data_path]
    /\ pc' = "aborted"
    /\ UNCHANGED <<csv, run, reads, loads, defined, df, price_min,
                   sentiment_max, channel_opts, session, filtered, summary,
                   table, metrics, chart_data, csv_bytes>>

\* lines 72-83: pd.read_csv raises; st.error shows the path, the error is re-raised
LoadReadFails ==
    /\ pc = "load"
    /\ csv.exists /\ ~csv.readable
    /\ reads' = reads + 1
    /\ err' = [type |-> "ParserError", path |-> data_path]
    /\ pc' = "aborted"
    /\ UNCHANGED <<csv, run, loads, defined, df, price_min, sentiment_max,
                   channel_opts, session, filtered, summary, table, metrics,
                   chart_data, csv_bytes>>

\* lines 72-112: df = load_data()
LoadOk ==
    /\ pc = "load"
    /\ csv.exists /\ csv.readable
    /\ reads' = reads + 1
    /\ loads' = loads + 1
    /\ df' = LoadData(csv.rows)
    /\ defined' = defined \cup {"df"}
    /\ pc' = "price_slider"
    /\ UNCHANGED <<csv, run, err, price_min, sentiment_max, channel_opts,
                   session, filtered, summary, table, metrics, chart_data,
                   csv_bytes>>

\* the value a widget returns: the session's value once it holds one,
\* the widget's default on its first rendering
WidgetValue(name, held, default) ==
    IF name \in session THEN held ELSE default

\* lines 133-139 when the call raises: int() of NaN is a ValueError; a
\* default value=200 above max_value is rejected with an exception by the
\* Streamlit releases that validate it
PriceSliderRaises ==
    /\ pc = "price_slider"
    /\ \/ /\ PriceMaxIsNan(df)
          /\ err' = [type |-> "ValueError", path |-> ""]
       \/ /\ ~PriceMaxIsNan(df)
          /\ PriceDefault > PriceMaxValue(df)
          /\ err' = [type |-> "StreamlitAPIException", path |-> ""]
    /\ pc' = "aborted"
    /\ UNCHANGED <<csv, run, reads, loads, defined, df, price_min,
                   sentiment_max, channel_opts, session, filtered, summary,
                   table, metrics, chart_data, csv_bytes>>

\* lines 133-139; the Streamlit releases that do not reject a default above
\* max_value widen the slider to hold it (see SliderMax)
PriceSlider ==
    /\ pc = "price_slider"
    /\ ~PriceMaxIsNan(df)
    /\ price_min' = WidgetValue("price_min", price_min, PriceDefault)
    /\ session' = session \cup {"price_min"}
    /\ defined' = defined \cup {"price_min"}
    /\ pc' = "sentiment_slider"
    /\ UNCHANGED <<csv, run, reads, loads, err, df, sentiment_max,
                   channel_opts, filtered, summary, table, metrics,
                   chart_data, csv_bytes>>

\* lines 141-147
SentimentSlider ==
    /\ pc = "sentiment_slider"
    /\ sentiment_max' = WidgetValue("sentiment_max", sentiment_max, SentimentDefault)
    /\ session' = session \cup {"sentiment_max"}
    /\ defined' = defined \cup {"sentiment_max"}
    /\ pc' = "channel_multiselect"
    /\ UNCHANGED <<csv, run, reads, loads, err, df, price_min, channel_opts,
                   filtered, summary, table, metrics, chart_data, csv_bytes>>

\* lines 149-153
ChannelMultiselect ==
    /\ pc = "channel_multiselect"
    /\ channel_opts' = WidgetValue("channel_opts", channel_opts,
                                   DropnaUnique(df, "channel_name"))
    /\ session' = session \cup {"channel_opts"}
    /\ defined' = defined \cup {"channel_opts"}
    /\ pc' = "filter"
    /\ UNCHANGED <<csv, run, reads, loads, err, df, price_min, sentiment_max,
                   filtered, summary, table, metrics, chart_data, csv_bytes>>

\* the filter assigned back to df (df = df[mask])
ApplyFiltersInPlace ==
    /\ pc = "filter"
    /\ filtered' = Filter(df, price_min, sentiment_max, channel_opts)
    /\ df' = filtered'
    /\ defined' = defined \cup {"filtered"}
    /\ pc' = "summary"
    /\ UNCHANGED <<csv, run, reads, loads, err, price_min, sentiment_max,
                   channel_opts, session, summary, table, metrics, chart_data,
                   csv_bytes>>

\* lines 156-160
ApplyFilters ==
    /\ pc = "filter"
    /\ filtered' = Filter(df, price_min, sentiment_max, channel_opts)
    /\ defined' = defined \cup {"filtered"}
    /\ pc' = "summary"
    /\ UNCHANGED <<csv, run, reads, loads, err, df, price_min, sentiment_max,
                   channel_opts, session, summary, table, metrics, chart_data,
                   csv_bytes>>

\* line 162
Summary ==
    /\ pc = "summary"
    /\ summary' = [flagged |-> Len(filtered), total |-> Len(df)]
    /\ pc' = "table"
    /\ UNCHANGED <<csv, run, reads, loads, err, defined, df, price_min,
                   sentiment_max, channel_opts, session, filtered, table,
                   metrics, chart_data, csv_bytes>>

\* lines 165-182
Table ==
    /\ pc = "table"
    /\ table' = ProjectReset(filtered, ShownSet)
    /\ pc' = "metrics"
    /\ UNCHANGED <<csv, run, reads, loads, err, defined, df, price_min,
                   sentiment_max, channel_opts, session, filtered, summary,
                   metrics, chart_data, csv_bytes>>

\* lines 185-190
Metrics ==
    /\ pc = "metrics"
    /\ LET price == SeriesMean(Column(filtered, "Item_price"))
           amount == SeriesMean(Column(filtered, "synthetic_amount"))
           sentiment == SeriesMean(Column(filtered, "sentiment_score"))
       IN  metrics' = [price |-> price, amount |-> amount,
                       sentiment |-> sentiment,
                       price_text |-> FormatDollars(price),
                       amount_text |-> FormatDollars(amount),
                       sentiment_text |-> FormatHundredths(sentiment)]
    /\ pc' = "chart"
    /\ UNCHANGED <<csv, run, reads, loads, err, defined, df, price_min,
                   sentiment_max, channel_opts, session, filtered, summary,
                   table, chart_data, csv_bytes>>

ChartColumns == {"Item_price", "synthetic_amount", "sentiment_score"}

\* lines 193-203; the renaming of the three columns is not modelled
Chart ==
    /\ pc = "chart"
    /\ chart_data' = [i \in 1..Len(filtered) |->
                        [index |-> filtered[i].index,
                         cells |-> [c \in ChartColumns |-> filtered[i].cells[c]]]]
    /\ defined' = defined \cup {"chart_data"}
    /\ pc' = "download"
    /\ UNCHANGED <<csv, run, reads, loads, err, df, price_min, sentiment_max,
                   channel_opts, session, filtered, summary, table, metrics,
                   csv_bytes>>

\* lines 205-212
Download ==
    /\ pc = "download"
    /\ csv_bytes' = ExportCsv(filtered)
    /\ defined' = defined \cup {"csv_bytes"}
    /\ pc' = "done"
    /\ UNCHANGED <<csv, run, reads, loads, err, df, price_min, sentiment_max,
                   channel_opts, session, filtered, summary, table, metrics,
                   chart_data>>

-----------------------------------------------------------------------------
\* the positions the operator moves the sentiment slider to
SentimentMoves == {-100, -55, -40, 0}

(* The operator: every widget change, and a rerun request, starts a new run *)

\* a new run executes the script from the top with fresh globals; the
\* session keeps the widget values
StartRun ==
    /\ run < MaxRuns
    /\ run' = run + 1
    /\ pc' = "load"
    /\ err' = NoError
    /\ defined' = {}
    /\ df' = NoFrame
    /\ filtered' = NoFrame
    /\ summary' = NoSummary
    /\ table' = NoFrame
    /\ metrics' = NoMetrics
    /\ chart_data' = NoFrame
    /\ csv_bytes' = NoCsv
    /\ UNCHANGED <<csv, reads, loads, session>>

ChangePrice ==
    /\ pc = "done"
    /\ \E v \in SliderPositions(0, SliderMax(df), PriceStep) \ {price_min} :
            price_min' = v
    /\ StartRun
    /\ UNCHANGED <<sentiment_max, channel_opts>>

ChangeSentiment ==
    /\ pc = "done"
    /\ \E v \in (SliderPositions(SentimentLow, SentimentHigh, SentimentStep)
                    \cap SentimentMoves) \ {sentiment_max} :
            sentiment_max' = v
    /\ StartRun
    /\ UNCHANGED <<price_min, channel_opts>>

ChangeChannels ==
    /\ pc = "done"
    /\ \E S \in (SUBSET DropnaUnique(df, "channel_name")) \ {channel_opts} :
            channel_opts' = S
    /\ StartRun
    /\ UNCHANGED <<price_min, sentiment_max>>

\* the operator asks for a rerun, also after a run that ended in an exception
Rerun ==
    /\ pc \in {"done", "aborted"}
    /\ StartRun
    /\ UNCHANGED <<price_min, sentiment_max, channel_opts>>

Next ==
    \/ LoadNotFound
    \/ LoadReadFails
    \/ LoadOk
    \/ PriceSliderRaises
    \/ PriceSlider
    \/ SentimentSlider
    \/ ChannelMultiselect
    \/ ApplyFilters
    \/ Summary
    \/ Table
    \/ Metrics
    \/ Chart
    \/ Download
    \/ ChangePrice
    \/ ChangeSentiment
    \/ ChangeChannels
    \/ Rerun

Spec == Init /\ [][Next]_vars

-----------------------------------------------------------------------------
(* Properties *)

\* positions of the run at which an element is on the page
TableShown == pc \in {"metrics", "chart", "download", "done"}
MetricsShown == pc \in {"chart", "download", "done"}

\* the three predicates of the filter criteria, on one row
PriceAbove(r) ==
    /\ r.cells["Item_price"].na = FALSE
    /\ r.cells["Item_price"].v > 100 * price_min
SentimentBelow(r) ==
    /\ r.cells["sentiment_score"].na = FALSE
    /\ r.cells["sentiment_score"].v < sentiment_max
ChannelAllowed(r) == r.cells["channel_name"] \in channel_opts
InView(r) == \E k \in 1..Len(filtered) : filtered[k] = r

\* C1: the filtered view holds exactly the rows of the Dataset with
\* Item_price > minPrice, sentiment_score < maxSentiment and channel_name
\* among the allowed channels, both bounds exclusive.
C1_FilterExact ==
    "filtered" \in defined =>
        /\ \A k \in 1..Len(filtered) :
              /\ PriceAbove(filtered[k])
              /\ SentimentBelow(filtered[k])
              /\ ChannelAllowed(filtered[k])
        /\ \A i \in 1..Len(df) :
              (PriceAbove(df[i]) /\ SentimentBelow(df[i]) /\ ChannelAllowed(df[i]))
                  <=> InView(df[i])

\* a row whose price equals minPrice is left out although it passes the
\* other two predicates, next to a row that is kept
C1_Witness ==
    /\ "filtered" \in defined
    /\ Len(filtered) > 0
    /\ \E i \in 1..Len(df) :
          /\ df[i].cells["Item_price"] = Num(100 * price_min)
          /\ SentimentBelow(df[i])
          /\ ChannelAllowed(df[i])
          /\ ~InView(df[i])

\* C2: the view is a subset of the Dataset's rows, no longer than the
\* Dataset, and filtering the view again with the same criteria returns it.
C2_SubsetIdempotent ==
    "filtered" \in defined =>
        /\ Len(filtered) <= Len(df)
        /\ \A k \in 1..Len(filtered) : \E i \in 1..Len(df) : df[i] = filtered[k]
        /\ Filter(filtered, price_min, sentiment_max, channel_opts) = filtered

C2_Witness ==
    /\ "filtered" \in defined
    /\ Len(filtered) = 2
    /\ run > 1

\* C3: with no channel selected the view is empty, whatever the Dataset,
\* minPrice and maxSentiment.
C3_EmptyChannelsEmptyView ==
    ("filtered" \in defined /\ channel_opts = {}) => Len(filtered) = 0

\* the operator has emptied the selection, and a row passes both other
\* predicates
C3_Witness ==
    /\ "filtered" \in defined
    /\ channel_opts = {}
    /\ DropnaUnique(df, "channel_name") # {}
    /\ \E i \in 1..Len(df) :
          /\ PriceAbove(df[i])
          /\ SentimentBelow(df[i])
          /\ df[i].cells["channel_name"] # NoChannel

\* C4: rows of the view, and of the displayed table after its index is
\* reset, are in the order of the Dataset.
C4_StableOrder ==
    /\ "df" \in defined => \A i \in 1..Len(df) : df[i].index = i - 1
    /\ "filtered" \in defined =>
          /\ \A k \in 1..Len(filtered) :
                /\ filtered[k].index + 1 \in 1..Len(df)
                /\ filtered[k] = df[filtered[k].index + 1]
          /\ \A j, k \in 1..Len(filtered) :
                j < k => filtered[j].index < filtered[k].index
    /\ TableShown =>
          /\ Len(table) = Len(filtered)
          /\ \A k \in 1..Len(table) :
                /\ table[k].index = k - 1
                /\ \A c \in ShownSet : table[k].cells[c] = filtered[k].cells[c]

C4_Witness ==
    /\ pc = "done"
    /\ Len(filtered) = 2
    /\ filtered[1].cells # filtered[2].cells
    /\ Len(table) = 2

\* the sum of a column over every row of the view, a missing value counted
\* as nothing
RECURSIVE SumAll(_, _)
SumAll(frame, col) ==
    IF frame = <<>> THEN 0
    ELSE (IF Head(frame).cells[col].na THEN 0 ELSE Head(frame).cells[col].v)
         + SumAll(Tail(frame), col)

Present(frame, col) == SelectSeq(frame, LAMBDA r : r.cells[col].na = FALSE)

\* the metric m is the sum of col over every surviving row divided by the
\* number of surviving rows
IsMeanOverView(m, col) ==
    /\ m.nan = FALSE
    /\ m.num * Len(filtered) = SumAll(filtered, col) * m.den

\* the metric m is the mean of col over the surviving rows that have a value
IsMeanOverPresent(m, col) ==
    IF Len(Present(filtered, col)) = 0
    THEN m.nan = TRUE
    ELSE /\ m.nan = FALSE
         /\ m.num * Len(Present(filtered, col)) = SumAll(filtered, col) * m.den

ShownAsNan ==
    /\ metrics.price.nan /\ metrics.amount.nan /\ metrics.sentiment.nan
    /\ metrics.price_text.nan /\ metrics.amount_text.nan
    /\ metrics.sentiment_text.nan

\* C5 as stated: each of the three means is the sum over all surviving rows
\* divided by their number, and NaN for the empty view.
C5_MeansOverAllSurvivors ==
    MetricsShown =>
        IF Len(filtered) = 0 THEN ShownAsNan
        ELSE /\ IsMeanOverView(metrics.price, "Item_price")
             /\ IsMeanOverView(metrics.amount, "synthetic_amount")
             /\ IsMeanOverView(metrics.sentiment, "sentiment_score")

\* C5 as amended: mean Item_price and mean sentiment_score are the sum over
\* all surviving rows divided by their number; mean synthetic_amount is the
\* sum over the surviving rows that have an amount divided by the number of
\* those rows, NaN when none has; the empty view shows NaN for all three,
\* never zero.
C5_MeansSkipMissing ==
    MetricsShown =>
        /\ Len(filtered) = 0 => ShownAsNan
        /\ Len(filtered) > 0 =>
              /\ IsMeanOverView(metrics.price, "Item_price")
              /\ IsMeanOverView(metrics.sentiment, "sentiment_score")
        /\ IsMeanOverPresent(metrics.amount, "synthetic_amount")
        /\ metrics.amount_text.nan = metrics.amount.nan
        /\ metrics.price_text.nan = metrics.price.nan
        /\ metrics.sentiment_text.nan = metrics.sentiment.nan

\* two rows survive, one of them without a synthetic_amount
C5_Witness ==
    /\ MetricsShown
    /\ Len(filtered) = 2
    /\ Len(Present(filtered, "synthetic_amount")) = 1

\* the empty view has been summarised
C5_WitnessEmpty ==
    /\ MetricsShown
    /\ Len(df) > 0
    /\ Len(filtered) = 0

\* C6: during load a date cell whose text is no date becomes missing, for
\* that cell only: the load does not raise, the cells that are dates keep
\* their day-first value, and every other column is as read from the file.
C6_MalformedDateCoerced ==
    /\ (csv.exists /\ csv.readable /\ pc # "load") =>
          "df" \in defined /\ err.type \notin {"FileNotFoundError", "ParserError"}
    /\ "df" \in defined =>
          /\ Len(df) = Len(csv.rows)
          /\ \A i \in 1..Len(df) :
                /\ \A c \in {"order_date_time", "synthetic_date"} :
                      LET text == csv.rows[i][c]
                          cell == df[i].cells[c]
                      IN  /\ text = TextNotADate => cell = NaT
                          /\ text = TextEmpty => cell = NaT
                          /\ text = TextFeb30 => cell = NaT
                          /\ text = Text1008 => cell = Date(2023, 8, 10)
                          /\ text = Text2511 => cell = Date(2023, 11, 25)
                /\ \A c \in ColumnSet \ {"order_date_time", "synthetic_date"} :
                      df[i].cells[c] = csv.rows[i][c]

\* a file with a malformed order_date_time next to a row whose
\* order_date_time is a date has been loaded
C6_Witness ==
    /\ "df" \in defined
    /\ \E i, j \in 1..Len(df) :
          /\ csv.rows[i]["order_date_time"] = TextNotADate
          /\ df[i].cells["order_date_time"] = NaT
          /\ df[i].cells["synthetic_date"] # NaT
          /\ df[j].cells["order_date_time"] = Date(2023, 11, 25)

NothingRendered ==
    /\ summary = NoSummary
    /\ table = NoFrame
    /\ metrics = NoMetrics
    /\ chart_data = NoFrame
    /\ csv_bytes = NoCsv

\* C7: when the file does not exist the load fails with a not-found error
\* that carries the attempted path, before any read; no Dataset is produced
\* and no filter, metric, chart or export step runs afterwards.
C7_NotFoundIsFatal ==
    ~csv.exists =>
        /\ pc \in {"load", "aborted"}
        /\ pc = "aborted" =>
              err = [type |-> "FileNotFoundError", path |-> data_path]
        /\ reads = 0
        /\ loads = 0
        /\ defined = {}
        /\ df = NoFrame
        /\ filtered = NoFrame
        /\ NothingRendered

\* the load has failed again in a rerun
C7_Witness ==
    /\ ~csv.exists
    /\ pc = "aborted"
    /\ err.type = "FileNotFoundError"
    /\ run = 2

C9_ExportMatchesView ==
    "csv_bytes" \in defined =>
        /\ csv_bytes.header = Columns
        /\ Len(csv_bytes.lines) = Len(filtered)
        /\ Len(csv_bytes.lines) = summary.flagged
        /\ \A k \in 1..Len(filtered) :
              /\ Len(csv_bytes.lines[k]) = Len(Columns)
              /\ \A j \in 1..Len(Columns) :
                    csv_bytes.lines[k][j] =
                        ToCsvCell(Columns[j], filtered[k].cells[Columns[j]])

\* two rows have been exported, the first with a date and a missing date
C9_Witness ==
    /\ "csv_bytes" \in defined
    /\ Len(csv_bytes.lines) = 2
    /\ Columns[2] = "order_date_time" /\ csv_bytes.lines[1][2] = <<>>
    /\ Columns[7] = "synthetic_date"
    /\ csv_bytes.lines[1][7] = <<"2", "0", "2", "3", "-", "0", "8", "-", "1", "0">>

\* C10: for every loaded Dataset the price slider is configured without
\* error and its value lies in [0, int(max Item_price)], the default 200
\* included.
C10_PriceValueWithinBounds ==
    "df" \in defined =>
        /\ err = NoError
        /\ pc # "price_slider" =>
              /\ "price_min" \in defined
              /\ 0 <= price_min
              /\ price_min <= PriceMaxValue(df)

====
